---- MODULE Spec2Model ----
(***************************************************************************)
(* The provenance protocol of provenance-rs: the envelope line format,     *)
(* sign / format_doc, verify (one layer) and verify_all (the peel loop),   *)
(* against a key directory.                                                *)
(*                                                                         *)
(* Texts are sequences of characters.  A character is a tagged tuple:      *)
(*   <<"c", s>>      the plain character s                                 *)
(*   <<"e", g, j>>   the j-th base64 character of the byte group g         *)
(* and a byte is a tagged tuple as well:                                   *)
(*   <<"b", n>>          the byte n                                        *)
(*   <<"sig", sk, msg>>  the leading byte of the Ed25519 signature of msg  *)
(*                       under signing key sk                              *)
(*   <<"vk", sk>>        the leading byte of the verifying key of sk       *)
(*   <<"raw", q, i>>     the i-th byte decoded from the base64 quad q      *)
(* Ed25519 is an ideal signature scheme here: a signature is determined by *)
(* (key, message) and by nothing else, and no two pairs share one.         *)
(***************************************************************************)
EXTENDS Integers, Sequences, FiniteSets, TLC

VARIABLES directory, signed_doc, layers, body0, tampered,
          pc, doc, verifications, verified, vinput, passes,
          header_words, events, exit, db, req

vars == <<directory, signed_doc, layers, body0, tampered,
          pc, doc, verifications, verified, vinput, passes,
          header_words, events, exit, db, req>>

----------------------------------------------------------------------------
(* Bounds of the model *)

\* how many envelopes are wrapped around a document
MaxSigners == 2

\* how many lines a document grows to by wrapping
MaxLines == 3

\* how many requests the key server handles at the same time
MaxRequests == 3

----------------------------------------------------------------------------
(* Texts *)

Ch(s) == <<"c", s>>

Str(t) == [i \in 1..Len(t) |-> Ch(t[i])]

LF == Ch("\n")

SP == Ch(" ")

\* "~~<lock>": the lock emoji is one character
PROVENANCE_PREAMBLE == Str(<<"~", "~", "lock">>)

PROVENANCE_POSTAMBLE == Str(<<"lock", "~", "~">>)

\* the version of an earlier build
PreviousVersion == Str(<<"0", ".", "1">>)

\* env!("CARGO_PKG_VERSION"): a semantic version, fixed at build time
PROVENANCE_VERSION == Str(<<"0", ".", "1", ".", "0">>)

HasChar(s, c) == \E i \in 1..Len(s) : s[i] = c

FirstIndex(s, c) ==
    LET at == {i \in 1..Len(s) : s[i] = c}
    IN  CHOOSE i \in at : \A j \in at : i <= j

\* str::split_once(c): None (<<>>) without c, else <<before, after>> the first c
split_once(s, c) ==
    IF ~HasChar(s, c) THEN <<>>
    ELSE LET i == FirstIndex(s, c)
         IN  <<SubSeq(s, 1, i - 1), SubSeq(s, i + 1, Len(s))>>

\* the pieces between two c that are not empty
RECURSIVE split_nonempty(_, _)
split_nonempty(s, c) ==
    IF ~HasChar(s, c) THEN (IF s = <<>> THEN <<>> ELSE <<s>>)
    ELSE LET i == FirstIndex(s, c)
         IN  (IF i = 1 THEN <<>> ELSE <<SubSeq(s, 1, i - 1)>>)
                \o split_nonempty(SubSeq(s, i + 1, Len(s)), c)

\* str::split(c).collect(): every piece between two c, empty pieces included
RECURSIVE split(_, _)
split(s, c) ==
    IF ~HasChar(s, c) THEN <<s>>
    ELSE LET i == FirstIndex(s, c)
         IN  <<SubSeq(s, 1, i - 1)>> \o split(SubSeq(s, i + 1, Len(s)), c)

\* str::lines().count(): one line per line feed, plus the unterminated last line
\* when it is not empty
LineCount(s) ==
    Cardinality({i \in 1..Len(s) : s[i] = LF})
      + (IF Len(s) > 0 /\ s[Len(s)] # LF THEN 1 ELSE 0)

----------------------------------------------------------------------------
(* Keys and signatures (ed25519_dalek) *)

SigningKeys == {"k1", "k2"}

Byte(n) == <<"b", n>>

SIGNATURE_LENGTH == 64

SECRET_KEY_LENGTH == 32

\* signing_key.sign(msg).to_bytes()
Ed25519Sign(sk, msg) ==
    [i \in 1..SIGNATURE_LENGTH |-> IF i = 1 THEN <<"sig", sk, msg>> ELSE Byte(0)]

\* signing_key.verifying_key().to_bytes()
VerifyingKeyOf(sk) ==
    [i \in 1..SECRET_KEY_LENGTH |-> IF i = 1 THEN <<"vk", sk>> ELSE Byte(0)]

Ed25519VerifyAnyKey(vk, msg, sig) ==
    \E sk \in SigningKeys : sig = Ed25519Sign(sk, msg)

Ed25519VerifyAnyMessage(vk, msg, sig) ==
    \E sk \in SigningKeys :
        /\ vk = VerifyingKeyOf(sk)
        /\ Len(sig) = SIGNATURE_LENGTH
        /\ sig[1][1] = "sig"
        /\ sig[1][2] = sk

\* verification_key.verify(msg, &signature).is_ok()
Ed25519Verify(vk, msg, sig) ==
    \E sk \in SigningKeys : vk = VerifyingKeyOf(sk) /\ sig = Ed25519Sign(sk, msg)

----------------------------------------------------------------------------
(* base64, URL-safe alphabet, padded (base64::engine::general_purpose::URL_SAFE) *)

PAD == Ch("=")

\* the plain characters of the model that belong to the URL-safe alphabet
B64Plain == {"a", "b", "u", "v", "z", "0", "1"}

E(g, j) == <<"e", g, j>>

IsB64Char(c) == c[1] = "e" \/ (c[1] = "c" /\ c[2] \in B64Plain)

RECURSIVE EncodeNoPad(_)
EncodeNoPad(bytes) ==
    IF Len(bytes) = 0 THEN <<>>
    ELSE IF Len(bytes) >= 3
         THEN LET g == SubSeq(bytes, 1, 3)
              IN  <<E(g, 1), E(g, 2), E(g, 3), E(g, 4)>>
                     \o EncodeNoPad(SubSeq(bytes, 4, Len(bytes)))
         ELSE IF Len(bytes) = 2
              THEN <<E(bytes, 1), E(bytes, 2), E(bytes, 3)>>
              ELSE <<E(bytes, 1), E(bytes, 2)>>

\* URL_SAFE.encode: three bytes give four characters, the last group is padded
RECURSIVE URL_SAFE_encode(_)
URL_SAFE_encode(bytes) ==
    IF Len(bytes) = 0 THEN <<>>
    ELSE IF Len(bytes) >= 3
         THEN LET g == SubSeq(bytes, 1, 3)
              IN  <<E(g, 1), E(g, 2), E(g, 3), E(g, 4)>>
                     \o URL_SAFE_encode(SubSeq(bytes, 4, Len(bytes)))
         ELSE IF Len(bytes) = 2
              THEN <<E(bytes, 1), E(bytes, 2), E(bytes, 3), PAD>>
              ELSE <<E(bytes, 1), E(bytes, 2), PAD, PAD>>

\* the number of data characters of a quad: padding closes the last quad only
QuadData(q, last) ==
    IF q[4] = PAD /\ last THEN (IF q[3] = PAD THEN 2 ELSE 3) ELSE 4

QuadOk(q, last) ==
    \A j \in 1..QuadData(q, last) : IsB64Char(q[j])

\* the bytes of a quad: the group it encodes, or bytes known only by the quad
QuadBytes(q, last) ==
    LET n == QuadData(q, last)
    IN  IF /\ q[1][1] = "e"
           /\ Len(q[1][2]) = n - 1
           /\ \A j \in 1..n : q[j] = E(q[1][2], j)
        THEN q[1][2]
        ELSE [i \in 1..(n - 1) |-> <<"raw", q, i>>]

RECURSIVE DecodeQuads(_)
DecodeQuads(text) ==
    IF Len(text) = 0 THEN <<>>
    ELSE QuadBytes(SubSeq(text, 1, 4), Len(text) = 4)
            \o DecodeQuads(SubSeq(text, 5, Len(text)))

\* URL_SAFE.decode: Err (ok = FALSE) unless the text is padded base64
URL_SAFE_decode(text) ==
    IF /\ Len(text) % 4 = 0
       /\ \A n \in 1..(Len(text) \div 4) :
              QuadOk(SubSeq(text, 4 * n - 3, 4 * n), 4 * n = Len(text))
    THEN [ok |-> TRUE, bytes |-> DecodeQuads(text)]
    ELSE [ok |-> FALSE, bytes |-> <<>>]

----------------------------------------------------------------------------
(* Conversions from base64 text (impl TryFrom<..> for ..) *)

Conv(kind, bytes) == [err |-> kind, bytes |-> bytes]

\* impl TryFrom<Base64Signature> for Signature
SignatureFromBase64(text) ==
    LET d == URL_SAFE_decode(text)
    IN  IF ~d.ok THEN Conv("BadBase64", <<>>)
        ELSE IF Len(d.bytes) # SIGNATURE_LENGTH THEN Conv("BadSignatureLength", <<>>)
        ELSE Conv("", d.bytes)

VerifyingKeyFromBase64Unchecked(text) ==
    LET d == URL_SAFE_decode(text)
    IN  IF ~d.ok THEN Conv("BadBase64", <<>>) ELSE Conv("", d.bytes)

\* impl TryFrom<Base64VerifyingKey> for VerifyingKey; VerifyingKey::from_bytes
\* accepts the encodings of verifying keys only
VerifyingKeyFromBase64(text) ==
    LET d == URL_SAFE_decode(text)
    IN  IF ~d.ok THEN Conv("BadBase64", <<>>)
        ELSE IF Len(d.bytes) # SECRET_KEY_LENGTH THEN Conv("BadKeyLength", <<>>)
        ELSE IF ~\E sk \in SigningKeys : d.bytes = VerifyingKeyOf(sk)
             THEN Conv("BadKey", <<>>)
        ELSE Conv("", d.bytes)

----------------------------------------------------------------------------
(* The key directory (server/src/main.rs) as verify sees it *)

\* the endpoints of the directory: a lookup is made with a header token
UrlU == Str(<<"u">>)

UrlV == Str(<<"v">>)

LookupUrls == {UrlU, UrlV}

\* a url no server listens at: the GET cannot be sent
UrlW == Str(<<"w">>)

\* fn provenance: the url the server reports is not the url that was asked
ReportedUrl(url) == url \o Str(<<"/", "p">>)

\* GET answered with 200 and the SignerDetails of the user whose key is sk
Served(sk, url) ==
    [success |-> TRUE,
     json |-> TRUE,
     verification_url |-> ReportedUrl(url),
     verification_key_b64 |-> URL_SAFE_encode(VerifyingKeyOf(sk))]

\* a response whose status is not a success
NotFound ==
    [success |-> FALSE, json |-> FALSE,
     verification_url |-> <<>>, verification_key_b64 |-> <<>>]

\* a response of status 200 whose body is not the JSON of the signer's details
Malformed ==
    [success |-> TRUE, json |-> FALSE,
     verification_url |-> <<>>, verification_key_b64 |-> <<>>]

\* texts a server gives as verification_key_b64 that are no key: not base64,
\* base64 of two bytes, base64 of 32 bytes that are no point of the curve
NoKeyTexts ==
    { Str(<<"!">>),
      URL_SAFE_encode(<<Byte(1), Byte(2)>>),
      URL_SAFE_encode([i \in 1..SECRET_KEY_LENGTH |-> Byte(0)]) }

\* a response of status 200 with the JSON of the signer's details and no key in it
ServedNoKey(text, url) ==
    [success |-> TRUE, json |-> TRUE,
     verification_url |-> ReportedUrl(url), verification_key_b64 |-> text]

Responses(url) == {Served(sk, url) : sk \in SigningKeys} \cup {NotFound}

\* the responses that give no key
FailedResponses(url) ==
    {NotFound, Malformed} \cup {ServedNoKey(text, url) : text \in NoKeyTexts}

\* fn get_verifying_key_from_url: Ok(key) as err = "", any Err as err # ""
get_verifying_key_from_url(url, dir) ==
    IF url \notin DOMAIN dir THEN Conv("SendFailed", <<>>)
    ELSE IF ~dir[url].success THEN Conv("BadStatus", <<>>)
    ELSE IF ~dir[url].json THEN Conv("BadJson", <<>>)
    ELSE VerifyingKeyFromBase64(dir[url].verification_key_b64)

----------------------------------------------------------------------------
(* The key server (server/src/main.rs): its requests, one thread each *)

Usernames == {"beyarkay", "alice"}

Requests == 1..MaxRequests

\* SigningKey::generate(&mut csprng): a key no other request generates
GeneratedKey(r) == "g" \o ToString(r)

\* fn rocket: the db at launch holds the fixed key of beyarkay
LaunchDb == [u \in {"beyarkay"} |-> "k1"]

\* a request not yet routed
NewRequest == [kind |-> "none", user |-> "none", pc |-> "new", status |-> "none", key |-> "none"]

ServerStart == db = LaunchDb /\ req = [r \in Requests |-> NewRequest]

\* the variables of a document and of its verification
doc_vars ==
    <<directory, signed_doc, layers, body0, tampered, pc, doc, verifications, verified,
      vinput, passes, header_words, events, exit>>

\* HashMap::insert
Insert(map, k, v) == [x \in DOMAIN map \cup {k} |-> IF x = k THEN v ELSE map[x]]

\* generate_key, first critical section: state.db.lock().unwrap().contains_key(&username),
\* and the return of the error when the user exists
GenerateKeyCheck(r, u) ==
    /\ req[r].pc = "new"
    /\ req' = [req EXCEPT ![r] =
                  IF u \in DOMAIN db
                  THEN [kind |-> "generate_key", user |-> u, pc |-> "done",
                        status |-> "exists", key |-> "none"]
                  ELSE [kind |-> "generate_key", user |-> u, pc |-> "checked",
                        status |-> "none", key |-> GeneratedKey(r)]]
    /\ UNCHANGED db
    /\ UNCHANGED doc_vars

\* generate_key, second critical section: state.db.lock().unwrap().insert(username,
\* signing_key.clone()), and the return of the key pair
GenerateKeyInsert(r) ==
    /\ req[r].pc = "checked"
    /\ db' = Insert(db, req[r].user, req[r].key)
    /\ req' = [req EXCEPT ![r].pc = "done", ![r].status = "ok"]
    /\ UNCHANGED doc_vars

\* provenance: one critical section, the key of the user or "not found"
Provenance(r, u) ==
    /\ req[r].pc = "new"
    /\ req' = [req EXCEPT ![r] =
                  IF u \in DOMAIN db
                  THEN [kind |-> "provenance", user |-> u, pc |-> "done",
                        status |-> "ok", key |-> db[u]]
                  ELSE [kind |-> "provenance", user |-> u, pc |-> "done",
                        status |-> "not found", key |-> "none"]]
    /\ UNCHANGED db
    /\ UNCHANGED doc_vars

ServerNext ==
    \/ \E r \in Requests, u \in Usernames : GenerateKeyCheck(r, u)
    \/ \E r \in Requests : GenerateKeyInsert(r)
    \/ \E r \in Requests, u \in Usernames : Provenance(r, u)

----------------------------------------------------------------------------
(* sign, format_doc, verify *)

Join5(a, b, c, d, e) == a \o <<SP>> \o b \o <<SP>> \o c \o <<SP>> \o d \o <<SP>> \o e

\* pub fn format_doc
format_doc(url, encoded_signature, d) ==
    Join5(PROVENANCE_PREAMBLE, PROVENANCE_VERSION, url, encoded_signature,
          PROVENANCE_POSTAMBLE) \o <<LF>> \o d

\* pub fn sign
sign(d, signing_key, url) ==
    format_doc(url, URL_SAFE_encode(Ed25519Sign(signing_key, d)), d)

Ok(url, key) ==
    [ok |-> TRUE, err |-> "", verification_url |-> url, verification_key |-> key]

Err(kind) ==
    [ok |-> FALSE, err |-> kind, verification_url |-> <<>>, verification_key |-> <<>>]

SignerDetailsReported(url, key, response) == Ok(response.verification_url, key)

\* the success value of verify: the url of the header, the key of the lookup
SignerDetailsOf(url, key, response) == Ok(url, key)

FailureRemainderInput(input, d) == input

\* the remainder of a failed layer: the text after the header line
FailureRemainder(input, d) == d

Parsed(kind, url, signature, d) ==
    [err |-> kind, url |-> url, signature |-> signature, doc |-> d]

\* the decoding steps of verify: the split at the first line feed, the five
\* words, the checks of each, the signature bytes
decode(input) ==
    LET parts == split_once(input, LF)
    IN  IF parts = <<>> THEN Parsed("NotAnEnvelope", <<>>, <<>>, input)
        ELSE
        LET first == parts[1]
            d     == parts[2]
            words == split(first, SP)
            fail(kind) == Parsed(kind, <<>>, <<>>, FailureRemainder(input, d))
        IN  IF Len(words) # 5 THEN fail("MalformedHeader")
            ELSE
            LET preamble      == words[1]
                version       == words[2]
                url           == words[3]
                signature_b64 == words[4]
                postamble     == words[5]
            IN  IF url = <<>> THEN fail("EmptyUrl")
                ELSE IF signature_b64 = <<>> THEN fail("EmptySignature")
                ELSE IF preamble # PROVENANCE_PREAMBLE THEN fail("BadPreamble")
                ELSE IF version # PROVENANCE_VERSION THEN fail("BadVersion")
                ELSE IF postamble # PROVENANCE_POSTAMBLE THEN fail("BadPostamble")
                ELSE
                LET signature == SignatureFromBase64(signature_b64)
                IN  IF signature.err # "" THEN fail(signature.err)
                    ELSE Parsed("", url, signature.bytes, d)

\* pub fn verify: <<result, remainder>>
verify(input, dir) ==
    LET p == decode(input)
    IN  IF p.err # "" THEN <<Err(p.err), p.doc>>
        ELSE
        LET key == get_verifying_key_from_url(p.url, dir)
        IN  IF key.err # ""
            THEN <<Err("KeyResolutionFailed"), FailureRemainder(input, p.doc)>>
            ELSE IF ~Ed25519Verify(key.bytes, p.doc, p.signature)
                 THEN <<Err("SignatureInvalid"), FailureRemainder(input, p.doc)>>
                 ELSE <<SignerDetailsOf(p.url, key.bytes, dir[p.url]), p.doc>>

\* what a call of verify does outside itself, in the order it does it
Lookup(url) == <<"lookup", url>>

SignatureCheck(url) == <<"check", url>>

verify_events_eager(input, dir) ==
    LET p == decode(input)
    IN  IF ~HasChar(input, LF) THEN <<>>
        ELSE IF p.err # "" THEN <<Lookup(p.url)>>
        ELSE IF get_verifying_key_from_url(p.url, dir).err # "" THEN <<Lookup(p.url)>>
        ELSE <<Lookup(p.url), SignatureCheck(p.url)>>

\* pub fn verify: no call when a check of the format returns early; else
\* get_verifying_key_from_url once, and verification_key.verify after it when
\* it gave a key
verify_events(input, dir) ==
    LET p == decode(input)
    IN  IF p.err # "" THEN <<>>
        ELSE IF get_verifying_key_from_url(p.url, dir).err # "" THEN <<Lookup(p.url)>>
        ELSE <<Lookup(p.url), SignatureCheck(p.url)>>

----------------------------------------------------------------------------
(* Inputs *)

\* documents nobody signed: one line, several lines, empty
PlainBodies == {Str(<<"a">>), Str(<<"a", "\n", "b">>), <<>>}

\* lines that look like a header but carry a wrong marker or version
\* (tests verification_fails_if_bad_start / _bad_ending / _bad_version)
CraftedDocs ==
    { Join5(Str(<<"!">>), PROVENANCE_VERSION, UrlU, Str(<<"z">>), PROVENANCE_POSTAMBLE)
          \o <<LF>> \o Str(<<"a">>),
      Join5(PROVENANCE_PREAMBLE, Str(<<"!">>), UrlU, Str(<<"z">>), PROVENANCE_POSTAMBLE)
          \o <<LF>> \o Str(<<"a">>),
      Join5(PROVENANCE_PREAMBLE, PROVENANCE_VERSION, UrlU, Str(<<"z">>), Str(<<"!">>))
          \o <<LF>> \o Str(<<"a">>) }

InitDocs == PlainBodies \cup CraftedDocs

\* urls sign is called with: the two endpoints, the empty url, a url with a space
EmptyUrl == <<>>

SpacedUrl == Str(<<"u", " ", "v">>)

\* who signs: a key and the url the signer names
Signers == {<<"k1", UrlU>>, <<"k2", UrlV>>, <<"k1", EmptyUrl>>, <<"k1", SpacedUrl>>}

\* encoded signatures format_doc is called with that sign never produces
\* (tests verification_fails_if_signature_is_empty, _during_base64_decoding,
\* _during_signature_from_slice)
BadSignatures ==
    {<<>>, Str(<<"!">>), URL_SAFE_encode(<<Byte(1), Byte(2)>>)}

\* the directory: endpoint v serves the key k2, endpoint u some key or none
Directories ==
    {dir \in [LookupUrls -> Responses(UrlU) \cup Responses(UrlV)] :
        /\ dir[UrlU] \in Responses(UrlU)
        /\ dir[UrlV] = Served("k2", UrlV)}

\* what an editor puts beneath a header in place of the text found there
TamperTexts(d) == {d \o Str(<<"z">>), Str(<<"z">>)} \ {d}

----------------------------------------------------------------------------
(* State *)

NoResult == <<Err("none"), <<>>>>

Init ==
    /\ directory \in Directories
    /\ signed_doc \in InitDocs
    /\ body0 = signed_doc
    /\ layers = <<>>
    /\ tampered = 0
    /\ pc = "build"
    /\ doc = <<>>
    /\ verifications = <<>>
    /\ verified = NoResult
    /\ vinput = <<>>
    /\ passes = 0
    /\ header_words = <<>>
    /\ events = <<>>
    /\ exit = "none"
    /\ ServerStart

\* what was wrapped, by whom: kept to state the properties, not part of verify
Layer(kind, sk, url, d) == [kind |-> kind, key |-> sk, url |-> url, body |-> d]

\* a layer whose header carries the signature of an endpoint's signer over the
\* document the signer was given
WellMade(layer) == layer.kind \in {"sign", "mutate"} /\ layer.url \in LookupUrls

\* the documents considered carry at most one layer that is not well made
MayWrap(url, kind) ==
    /\ pc = "build"
    /\ tampered = 0
    /\ Len(layers) < MaxSigners
    /\ LineCount(signed_doc) < MaxLines
    /\ \/ kind \in {"sign", "mutate"} /\ url \in LookupUrls
       \/ \A i \in 1..Len(layers) : WellMade(layers[i])

\* a signer wraps the current document: sign(doc, signing_key, url)
Sign(sk, url) ==
    /\ MayWrap(url, "sign")
    /\ signed_doc' = sign(signed_doc, sk, url)
    /\ layers' = Append(layers, Layer("sign", sk, url, signed_doc))
    /\ UNCHANGED <<directory, body0, tampered, pc, doc, verifications, verified, vinput, passes>>
    /\ UNCHANGED <<header_words, events, exit, db, req>>

\* " got mutated!"
mutation_string == Str(<<" ", "m">>)

\* signers that change the document they sign
Mutators == {<<"k1", UrlU>>}

\* a signer signs the current document and puts it, with text appended at its
\* end, under the header (test verify_all_but_some_are_bad, *mutate)
SignMutated(sk, url) ==
    /\ MayWrap(url, "mutate")
    /\ signed_doc' = format_doc(url, URL_SAFE_encode(Ed25519Sign(sk, signed_doc)),
                                signed_doc \o mutation_string)
    /\ layers' = Append(layers, Layer("mutate", sk, url, signed_doc))
    /\ UNCHANGED <<directory, body0, tampered, pc, doc, verifications, verified, vinput, passes>>
    /\ UNCHANGED <<header_words, events, exit, db, req>>

\* an envelope is written with an encoded signature of the caller's choice:
\* format_doc(url, encoded_signature, doc)
FormatDoc(url, sig) ==
    /\ MayWrap(url, "format")
    /\ signed_doc' = format_doc(url, sig, signed_doc)
    /\ layers' = Append(layers, Layer("format", "none", url, signed_doc))
    /\ UNCHANGED <<directory, body0, tampered, pc, doc, verifications, verified, vinput, passes>>
    /\ UNCHANGED <<header_words, events, exit, db, req>>

\* the text above the body of layer d: the headers of layers d..n
Enclosing(d) == SubSeq(signed_doc, 1, Len(signed_doc) - Len(layers[d].body))

\* the text beneath the header of layer d is replaced
\* (test verification_fails_if_bad_doc: the document is changed after signing)
Tamper(d, text) ==
    /\ pc = "build"
    /\ tampered = 0
    /\ d \in 1..Len(layers)
    /\ \A i \in 1..Len(layers) : layers[i].kind = "sign" /\ layers[i].url \in LookupUrls
    /\ text # layers[d].body
    /\ signed_doc' = Enclosing(d) \o text
    /\ tampered' = d
    /\ UNCHANGED <<directory, layers, body0, pc, doc, verifications, verified, vinput, passes>>
    /\ UNCHANGED <<header_words, events, exit, db, req>>

\* the front end of src/cli.rs: one call of verify on the document
VerifyOne ==
    /\ pc = "build"
    /\ vinput' = signed_doc
    /\ verified' = verify(signed_doc, directory)
    /\ events' = events \o verify_events(signed_doc, directory)
    /\ pc' = "one"
    /\ UNCHANGED <<directory, signed_doc, layers, body0, tampered, doc, verifications, passes>>
    /\ UNCHANGED <<header_words, exit, db, req>>

\* verify_all is entered (lib.rs 315-317)
VerifyAllStart ==
    /\ pc = "build"
    /\ verifications' = <<>>
    /\ doc' = signed_doc
    /\ pc' = "loop"
    /\ UNCHANGED <<directory, signed_doc, layers, body0, tampered, verified, vinput, passes>>
    /\ UNCHANGED <<header_words, events, exit, db, req>>

NextDocStale(current, v) == current

\* doc = verified.1 (lib.rs 336)
NextDoc(current, v) == v[2]

\* one pass through the body of the loop (lib.rs 319-337)
LoopIter ==
    /\ pc = "loop"
    /\ passes' = passes + 1
    /\ LET v == verify(doc, directory)
       IN  /\ verified' = v
           /\ vinput' = doc
           /\ IF LineCount(doc) = LineCount(v[2])
              THEN /\ pc' = "done"
                   /\ UNCHANGED <<doc, verifications>>
              ELSE /\ verifications' = Append(verifications, v[1])
                   /\ doc' = NextDoc(doc, v)
                   /\ pc' = "loop"
    /\ events' = events \o verify_events(doc, directory)
    /\ UNCHANGED <<directory, signed_doc, layers, body0, tampered>>
    /\ UNCHANGED <<header_words, exit, db, req>>

\* verifications.0.iter().filter(|v| v.is_ok()).count()
num_verified(results) == Cardinality({i \in 1..Len(results) : results[i].ok})

ExitStatusNeedsLayer(total, verified_count) ==
    IF total > 0 /\ total = verified_count THEN "ok" ELSE "err"

ExitStatusSomeVerified(total, verified_count) ==
    IF total = 0 \/ verified_count > 0 THEN "ok" ELSE "err"

\* Ok(()) when total == num_verified, else Err("Not all provenance was successful")
ExitStatus(total, verified_count) ==
    IF total = verified_count THEN "ok" ELSE "err"

\* the verify command of src/lib/src/cli.rs after verify_all returned: it
\* counts the successes and exits
CliExit ==
    /\ pc = "done"
    /\ exit' = ExitStatus(Len(verifications), num_verified(verifications))
    /\ pc' = "exit"
    /\ UNCHANGED <<directory, signed_doc, layers, body0, tampered, doc, verifications,
                   verified, vinput, passes, header_words, events, db, req>>

Next ==
    \/ \E s \in Signers : Sign(s[1], s[2])
    \/ \E s \in Mutators : SignMutated(s[1], s[2])
    \/ \E sig \in BadSignatures : FormatDoc(UrlU, sig)
    \/ \E d \in 1..Len(layers) : \E text \in TamperTexts(layers[d].body) : Tamper(d, text)
    \/ VerifyOne
    \/ VerifyAllStart
    \/ LoopIter
    \/ CliExit

Spec == Init /\ [][Next]_vars

\* a pass of the loop as pc and the count of passes show it: a step of Spec
\* is one exactly when it is a step of LoopIter
LoopPass == pc = "loop" /\ passes' = passes + 1 /\ pc' \in {"loop", "done"}

\* a program inside the loop of verify_all takes its next pass
FairSpec == Spec /\ WF_<<pc, passes>>(LoopPass)

----------------------------------------------------------------------------
(* Properties *)

NumLayers == Len(layers)

\* the layer was written by sign and the directory serves its signer's key
Resolves(layer) ==
    /\ layer.kind = "sign"
    /\ layer.url \in DOMAIN directory
    /\ directory[layer.url] = Served(layer.key, layer.url)

\* every layer is a resolving signer's and nothing was changed afterwards
HonestChain == tampered = 0 /\ \A i \in 1..NumLayers : Resolves(layers[i])

\* a url that is one word of a header: not empty, no space, no line feed
IsToken(url) == url # <<>> /\ ~HasChar(url, SP) /\ ~HasChar(url, LF)

\* the text after the first line feed of s
AfterFirstLF(s) ==
    LET i == CHOOSE k \in 1..Len(s) : s[k] = LF /\ \A j \in 1..(k - 1) : s[j] # LF
    IN  [k \in 1..(Len(s) - i) |-> s[i + k]]

\* some call of verify has returned
Returned == verified[1].err # "none"

\* C1: a plain body wrapped by n >= 1 resolving signers in turn: verify_all
\* returns exactly n results, all successes, the last signer first, each with
\* its signer's url and verifying key, and the remainder is the body.
C1_ChainLength ==
    (pc = "done" /\ NumLayers >= 1 /\ HonestChain /\ body0 \in PlainBodies)
        => /\ Len(verifications) = NumLayers
           /\ \A i \in 1..NumLayers :
                  verifications[i] =
                      Ok(layers[NumLayers + 1 - i].url,
                         VerifyingKeyOf(layers[NumLayers + 1 - i].key))
           /\ doc = body0

\* the two-line body signed once for a resolving signer: two results, the second
\* a failure for the body's first line, and the body's last line as remainder
C1_Witness ==
    /\ pc = "done"
    /\ NumLayers = 1
    /\ HonestChain
    /\ body0 = Str(<<"a", "\n", "b">>)
    /\ Len(verifications) = 2
    /\ verifications[1].ok
    /\ verifications[2].err = "MalformedHeader"
    /\ doc = Str(<<"b">>)

\* C2: verify_all on a plain text nobody wrapped, with or without line feeds,
\* returns no result and the text itself as remainder.
C2_PlainText ==
    (pc = "done" /\ NumLayers = 0 /\ body0 \in PlainBodies)
        => verifications = <<>> /\ doc = body0

\* the two-line text nobody wrapped: one failure result, its last line as remainder
C2_Witness ==
    /\ pc = "done"
    /\ NumLayers = 0
    /\ body0 = Str(<<"a", "\n", "b">>)
    /\ verifications = <<Err("MalformedHeader")>>
    /\ doc = Str(<<"b">>)

\* what C3 says of the outermost layer when sign wrote it and nothing changed
RoundTrip(top) ==
    /\ decode(signed_doc)
          = Parsed("", top.url, Ed25519Sign(top.key, top.body), top.body)
    /\ (pc = "one" /\ Resolves(top))
          => verified = <<Ok(top.url, VerifyingKeyOf(top.key)), top.body>>

\* C3 as stated: for every body, every url and every key, decoding
\* sign(b, k, u) gives (u, the signature, b), and verify succeeds with the
\* verifying key of k when the directory at u serves it.
C3_RoundTripAnyUrl ==
    (NumLayers >= 1 /\ tampered = 0 /\ layers[NumLayers].kind = "sign")
        => RoundTrip(layers[NumLayers])

\* C3 amended: the same for every url that is one word (not empty, no space,
\* no line feed).
C3_RoundTrip ==
    (/\ NumLayers >= 1
     /\ tampered = 0
     /\ layers[NumLayers].kind = "sign"
     /\ IsToken(layers[NumLayers].url))
        => RoundTrip(layers[NumLayers])

C3_Witness ==
    /\ pc = "one"
    /\ NumLayers = 1
    /\ tampered = 0
    /\ Resolves(layers[1])
    /\ HasChar(body0, LF)
    /\ verified[1].ok
    /\ verified[2] = body0

\* C4: the text beneath the outermost header of a document written by sign
\* for a resolving signer is changed, the header line kept: verify fails with
\* SignatureInvalid.
C4_TamperSensitivity ==
    (/\ pc = "one"
     /\ NumLayers >= 1
     /\ tampered = NumLayers
     /\ Resolves(layers[NumLayers]))
        => ~verified[1].ok /\ verified[1].err = "SignatureInvalid"

C4_Witness ==
    /\ pc = "one"
    /\ NumLayers = 2
    /\ tampered = 2
    /\ Resolves(layers[2])
    /\ verified[1].err = "SignatureInvalid"
    /\ verified[2] # layers[2].body

\* C5: in a chain of resolving signers the text beneath the header of layer d
\* is changed afterwards: the results of layer d and of every layer that
\* encloses it are failures.
C5_TamperAtDepth ==
    (/\ pc = "done"
     /\ tampered >= 1
     /\ \A i \in 1..NumLayers : Resolves(layers[i]))
        => \A e \in tampered..NumLayers :
               /\ Len(verifications) >= NumLayers + 1 - e
               /\ ~verifications[NumLayers + 1 - e].ok

C5_Witness ==
    /\ pc = "done"
    /\ NumLayers = 2
    /\ tampered = 1
    /\ \A i \in 1..NumLayers : Resolves(layers[i])
    /\ Len(verifications) >= 2
    /\ ~verifications[1].ok
    /\ ~verifications[2].ok

\* C6: the remainder verify returns is its input when the input has no line
\* feed, and the text after the first line feed in every other case, whatever
\* the outcome.
C6_RemainderRule ==
    Returned
        => verified[2] = (IF HasChar(vinput, LF) THEN AfterFirstLF(vinput) ELSE vinput)

C6_Witness ==
    /\ Returned
    /\ verified[1].err = "KeyResolutionFailed"
    /\ HasChar(verified[2], LF)
    /\ verified[2] = AfterFirstLF(vinput)

\* C7: a pass of the loop of verify_all stops it exactly when verify reports
\* NotAnEnvelope, and then appends nothing; after any other outcome, failures
\* included, the result is appended and the loop goes on with the remainder.
C7_FailureDoesNotStopPeel ==
    [][pc = "loop"
          => LET v == verify(doc, directory)
             IN  IF v[1].err = "NotAnEnvelope"
                 THEN pc' = "done" /\ verifications' = verifications /\ doc' = doc
                 ELSE /\ pc' = "loop"
                      /\ verifications' = Append(verifications, v[1])
                      /\ doc' = v[2]]_vars

C7_Witness ==
    /\ pc = "done"
    /\ Len(verifications) = 2
    /\ verifications[1].err = "BadSignatureLength"
    /\ verifications[2].ok
    /\ verified[1].err = "NotAnEnvelope"

\* C8: a pass of the loop that does not end it leaves a document of strictly
\* fewer lines, and the loop, once entered, reaches its end.
C8_Terminates ==
    /\ [][(pc = "loop" /\ pc' = "loop") => LineCount(doc') < LineCount(doc)]_vars
    /\ (pc = "loop") ~> (pc = "done")

C8_Witness ==
    /\ pc = "done"
    /\ Len(verifications) = 2
    /\ LineCount(signed_doc) = 3
    /\ LineCount(doc) = 1

\* C9: a success of verify carries the url word of the header it peeled and
\* the key the lookup of that url gave, and the remainder is the body.
C9_SuccessRecord ==
    (Returned /\ verified[1].ok)
        => LET url == split(split_once(vinput, LF)[1], SP)[3]
           IN  /\ verified[1].verification_url = url
               /\ Conv("", verified[1].verification_key)
                     = get_verifying_key_from_url(url, directory)
               /\ verified[2] = AfterFirstLF(vinput)

C9_Witness ==
    /\ pc = "one"
    /\ verified[1].ok
    /\ NumLayers = 2
    /\ verified[1].verification_url = UrlV
    /\ verified[1].verification_key = VerifyingKeyOf("k2")
    /\ verified[2] = layers[2].body

\* the input of the last verify is an envelope sign wrote with key sk for url
SignedBy(sk, url) ==
    HasChar(vinput, LF) /\ vinput = sign(AfterFirstLF(vinput), sk, url)

\* C10: verify on an envelope signed over its body with key k, the lookup of
\* its url succeeding: SignatureInvalid when the key served is not the
\* verifying key of k, success when it is.
C10_WrongKey ==
    \A sk \in SigningKeys, url \in LookupUrls :
        (Returned /\ SignedBy(sk, url))
            => LET key == get_verifying_key_from_url(url, directory)
               IN  /\ (key.err = "" /\ key.bytes # VerifyingKeyOf(sk))
                          => verified[1].err = "SignatureInvalid"
                   /\ (key.err = "" /\ key.bytes = VerifyingKeyOf(sk))
                          => verified[1].ok

C10_Witness ==
    /\ pc = "one"
    /\ SignedBy("k1", UrlU)
    /\ directory[UrlU] = Served("k2", UrlU)
    /\ verified[1].err = "SignatureInvalid"

----------------------------------------------------------------------------
(* Lookups that fail *)

\* who signs: the signers of the endpoints and a signer naming a url without server
LookupSigners == {<<"k1", UrlU>>, <<"k2", UrlV>>, <<"k1", UrlW>>}

\* the directory: endpoint v serves the key k2, endpoint u a key or any of the
\* responses that give none
LookupDirectories ==
    {dir \in [LookupUrls -> Responses(UrlU) \cup FailedResponses(UrlU) \cup Responses(UrlV)] :
        /\ dir[UrlU] \in Responses(UrlU) \cup FailedResponses(UrlU)
        /\ dir[UrlV] = Served("k2", UrlV)}

LookupInit ==
    /\ directory \in LookupDirectories
    /\ signed_doc \in PlainBodies
    /\ body0 = signed_doc
    /\ layers = <<>>
    /\ tampered = 0
    /\ pc = "build"
    /\ doc = <<>>
    /\ verifications = <<>>
    /\ verified = NoResult
    /\ vinput = <<>>
    /\ passes = 0
    /\ header_words = <<>>
    /\ events = <<>>
    /\ exit = "none"
    /\ ServerStart

\* documents are signed and verify is called on them
LookupNext ==
    \/ \E s \in LookupSigners : Sign(s[1], s[2])
    \/ VerifyOne

LookupSpec == LookupInit /\ [][LookupNext]_vars

\* the lookup of url gives no key: no server, a status that is not a success,
\* a body that is not the expected JSON, or a key text that is no key
LookupFails(url) ==
    \/ url \notin DOMAIN directory
    \/ ~\E sk \in SigningKeys : directory[url] = Served(sk, url)

\* C11: verify on a document sign wrote for a one-word url, the lookup of the
\* url failing for whatever cause: the result is KeyResolutionFailed, never
\* SignatureInvalid, and the remainder is the body.
C11_KeyResolutionFailed ==
    (/\ pc = "one"
     /\ NumLayers >= 1
     /\ tampered = 0
     /\ layers[NumLayers].kind = "sign"
     /\ IsToken(layers[NumLayers].url)
     /\ LookupFails(layers[NumLayers].url))
        => verified = <<Err("KeyResolutionFailed"), layers[NumLayers].body>>

C11_Witness ==
    /\ pc = "one"
    /\ NumLayers = 2
    /\ tampered = 0
    /\ layers[2].kind = "sign"
    /\ layers[2].url = UrlU
    /\ directory[UrlU] = ServedNoKey(URL_SAFE_encode(<<Byte(1), Byte(2)>>), UrlU)
    /\ verified = <<Err("KeyResolutionFailed"), layers[2].body>>

----------------------------------------------------------------------------
(* verify on headers written word by word *)

\* words of a header that are not the marker or version expected in their place
WrongPreambles == {Str(<<"!">>)}

WrongVersions == {Str(<<"!">>), Str(<<"0", ".", "1">>)}

WrongPostambles == {Str(<<"!">>)}

\* signature words: of a signature, empty, not base64, base64 of two bytes
GoodSignatureWord == URL_SAFE_encode(Ed25519Sign("k1", Str(<<"a">>)))

NotBase64Word == Str(<<"!">>)

ShortSignatureWord == URL_SAFE_encode(<<Byte(1), Byte(2)>>)

FiveWords ==
    ({PROVENANCE_PREAMBLE} \cup WrongPreambles)
        \X ({PROVENANCE_VERSION} \cup WrongVersions)
        \X {UrlU, EmptyUrl}
        \X {GoodSignatureWord, <<>>, NotBase64Word, ShortSignatureWord}
        \X ({PROVENANCE_POSTAMBLE} \cup WrongPostambles)

\* the headers: five words, or four, or six
HeaderWords ==
    FiveWords
        \cup {SubSeq(w, 1, 4) : w \in FiveWords}
        \cup {w \o <<Str(<<"z">>)>> : w \in {v \in FiveWords : v[4] = GoodSignatureWord}}

\* the words joined by single spaces
RECURSIVE JoinWords(_)
JoinWords(w) ==
    IF Len(w) = 0 THEN <<>>
    ELSE IF Len(w) = 1 THEN w[1]
    ELSE w[1] \o <<SP>> \o JoinWords(Tail(w))

\* the key server of the tests: every signer's key at the signer's url
TestDirectory == (UrlU :> Served("k1", UrlU)) @@ (UrlV :> Served("k2", UrlV))

\* a document whose first line is written word by word, with or without the
\* line feed and the body "a" after it
DecodeInit ==
    /\ directory = TestDirectory
    /\ header_words \in HeaderWords
    /\ signed_doc \in {JoinWords(header_words) \o <<LF>> \o Str(<<"a">>), JoinWords(header_words)}
    /\ body0 = Str(<<"a">>)
    /\ layers = <<>>
    /\ tampered = 0
    /\ pc = "build"
    /\ doc = <<>>
    /\ verifications = <<>>
    /\ verified = NoResult
    /\ vinput = <<>>
    /\ passes = 0
    /\ events = <<>>
    /\ exit = "none"
    /\ ServerStart

DecodeSpec == DecodeInit /\ [][VerifyOne]_vars

\* the outcomes of verify that are failures of the format
FormatErrors ==
    {"NotAnEnvelope", "MalformedHeader", "EmptyUrl", "EmptySignature", "BadPreamble",
     "BadVersion", "BadPostamble", "BadBase64", "BadSignatureLength"}

\* the header of the input has its line feed and five words
FiveWordHeader == pc = "one" /\ HasChar(vinput, LF) /\ Len(header_words) = 5

\* C12 as stated: in a five-word header a preamble, version or postamble word
\* that is not the expected one gives BadPreamble, BadVersion, BadPostamble
\* respectively, whatever the other four words are.
C12_MarkerSensitivityAnyWords ==
    FiveWordHeader
        => /\ header_words[1] \in WrongPreambles => verified[1].err = "BadPreamble"
           /\ header_words[2] \in WrongVersions => verified[1].err = "BadVersion"
           /\ header_words[5] \in WrongPostambles => verified[1].err = "BadPostamble"

\* C12 amended: the same when the url and signature words are not empty and
\* the marker and version words before the replaced one are the expected ones.
C12_MarkerSensitivity ==
    (FiveWordHeader /\ header_words[3] # <<>> /\ header_words[4] # <<>>)
        => /\ header_words[1] \in WrongPreambles => verified[1].err = "BadPreamble"
           /\ (header_words[1] = PROVENANCE_PREAMBLE /\ header_words[2] \in WrongVersions)
                  => verified[1].err = "BadVersion"
           /\ (/\ header_words[1] = PROVENANCE_PREAMBLE
               /\ header_words[2] = PROVENANCE_VERSION
               /\ header_words[5] \in WrongPostambles)
                  => verified[1].err = "BadPostamble"

C12_Witness ==
    /\ FiveWordHeader
    /\ header_words[1] = PROVENANCE_PREAMBLE
    /\ header_words[2] = Str(<<"0", ".", "1">>)
    /\ header_words[3] = UrlU
    /\ header_words[4] = NotBase64Word
    /\ header_words[5] \in WrongPostambles
    /\ verified[1].err = "BadVersion"

----------------------------------------------------------------------------
(* Chains with signers that change the document *)

\* the header of the layer carries its signer's signature and the directory
\* serves the signer's key
ResolvesSigner(layer) ==
    /\ layer.kind \in {"sign", "mutate"}
    /\ layer.url \in DOMAIN directory
    /\ directory[layer.url] = Served(layer.key, layer.url)

\* signers the directory resolves wrapped the one-line document "a" in turn,
\* each flagged as mutating or not
MutatingChain ==
    /\ NumLayers >= 1
    /\ tampered = 0
    /\ body0 = Str(<<"a">>)
    /\ \A i \in 1..NumLayers : ResolvesSigner(layers[i])

\* signer i and every signer that wrapped after i left the document as it was
CleanFrom(i) == \A j \in i..NumLayers : layers[j].kind = "sign"

\* C13: in a chain of n signers, some of them mutating, around a one-line
\* document, verify_all returns n results, outermost signer first; the result
\* of signer i is a success, with the signer's url and key, exactly when
\* neither i nor a later signer was mutating; and verify right after a signer
\* wrapped fails exactly when that signer was mutating.
C13_MutatingChain ==
    /\ (pc = "done" /\ MutatingChain)
          => /\ Len(verifications) = NumLayers
             /\ \A i \in 1..NumLayers :
                    LET r == verifications[NumLayers + 1 - i]
                    IN  IF CleanFrom(i)
                        THEN r = Ok(layers[i].url, VerifyingKeyOf(layers[i].key))
                        ELSE ~r.ok
    /\ (pc = "one" /\ MutatingChain)
          => (verified[1].ok <=> layers[NumLayers].kind = "sign")

C13_Witness ==
    /\ pc = "done"
    /\ MutatingChain
    /\ NumLayers = 2
    /\ layers[1].kind = "sign"
    /\ layers[2].kind = "mutate"
    /\ Len(verifications) = 2
    /\ ~verifications[1].ok
    /\ ~verifications[2].ok

\* signer A signed the one-line document, text was appended at the end of the
\* body beneath A's header, signer B signed the result; verify_all has returned
TwoLayerScenario ==
    /\ pc = "done"
    /\ MutatingChain
    /\ NumLayers = 2
    /\ layers[1].kind = "mutate"
    /\ layers[2].kind = "sign"

\* the text beneath the header of A in the two-layer document
BeneathA == AfterFirstLF(AfterFirstLF(signed_doc))

\* C14 as stated: in the two-layer scenario the result of B, the outermost,
\* is a failure, and the result of A is a success only if the text beneath
\* A's header is what A signed.
C14_TwoLayerBFails ==
    TwoLayerScenario
        => /\ Len(verifications) = 2
           /\ ~verifications[1].ok
           /\ verifications[2].ok => BeneathA = layers[1].body

\* C14 amended: in the two-layer scenario the result of B is a success with
\* B's url and key (B signed the text with the appended garbage); the result
\* of A is a success only if the text beneath A's header is what A signed,
\* which it is not, so the result of A is SignatureInvalid.
C14_TwoLayer ==
    TwoLayerScenario
        => /\ Len(verifications) = 2
           /\ verifications[1] = Ok(layers[2].url, VerifyingKeyOf(layers[2].key))
           /\ verifications[2].ok => BeneathA = layers[1].body
           /\ BeneathA # layers[1].body
           /\ verifications[2].err = "SignatureInvalid"

C14_Witness ==
    /\ TwoLayerScenario
    /\ layers[1].key = "k1"
    /\ layers[2].key = "k2"
    /\ BeneathA = Str(<<"a", " ", "m">>)
    /\ verifications[1].ok
    /\ verifications[2].err = "SignatureInvalid"
    /\ doc = Str(<<"a", " ", "m">>)

----------------------------------------------------------------------------
(* The output of sign *)

\* the outermost layer was written by sign and nothing was changed afterwards
TopSigned == NumLayers >= 1 /\ tampered = 0 /\ layers[NumLayers].kind = "sign"

\* text is the padded URL-safe base64 of 64 bytes: 88 characters of the
\* alphabet, the last two of them padding
IsPaddedBase64Of64(text) ==
    /\ Len(text) = 88
    /\ \A i \in 1..86 : IsB64Char(text[i])
    /\ text[87] = PAD
    /\ text[88] = PAD

\* C15: for every body, key and url the output of sign is PREAMBLE, VERSION,
\* the url, the padded URL-safe base64 of the signature of the body under the
\* key, POSTAMBLE, joined by single spaces, then a line feed, then the body;
\* and sign on the same inputs gives that string again.
C15_SignFormat ==
    TopSigned
        => LET top == layers[NumLayers]
               b64 == SubSeq(signed_doc,
                             Len(PROVENANCE_PREAMBLE) + Len(PROVENANCE_VERSION)
                                 + Len(top.url) + 4,
                             Len(PROVENANCE_PREAMBLE) + Len(PROVENANCE_VERSION)
                                 + Len(top.url) + 91)
           IN  /\ signed_doc =
                     PROVENANCE_PREAMBLE \o <<SP>> \o PROVENANCE_VERSION \o <<SP>>
                         \o top.url \o <<SP>> \o b64 \o <<SP>>
                         \o PROVENANCE_POSTAMBLE \o <<LF>> \o top.body
               /\ IsPaddedBase64Of64(b64)
               /\ URL_SAFE_decode(b64) =
                     [ok |-> TRUE, bytes |-> Ed25519Sign(top.key, top.body)]
               /\ signed_doc = sign(top.body, top.key, top.url)

C15_Witness ==
    /\ TopSigned
    /\ NumLayers = 2
    /\ layers[2].url = SpacedUrl
    /\ layers[2].key = "k1"
    /\ layers[1].kind = "mutate"
    /\ signed_doc = sign(layers[2].body, "k1", SpacedUrl)
    /\ HasChar(layers[2].body, LF)

----------------------------------------------------------------------------
(* The verify command of the chain-verifying front end *)

\* C16: the verify command exits with an error when any result of verify_all
\* is a failure.
C16_ExitNonZeroOnFailure ==
    (pc = "exit" /\ \E i \in 1..Len(verifications) : ~verifications[i].ok)
        => exit = "err"

C16_Witness ==
    /\ pc = "exit"
    /\ Len(verifications) = 2
    /\ verifications[1].ok
    /\ ~verifications[2].ok
    /\ exit = "err"

----------------------------------------------------------------------------
(* The order of the checks of the format *)

\* the first check that the document written from header_words fails, in the
\* order: line feed, five words, url, signature word, preamble, version,
\* postamble, base64, length of the signature; "" when it passes them all
FirstFailingCheck ==
    LET w == header_words
    IN  IF ~HasChar(signed_doc, LF) THEN "NotAnEnvelope"
        ELSE IF Len(w) # 5 THEN "MalformedHeader"
        ELSE IF w[3] = <<>> THEN "EmptyUrl"
        ELSE IF w[4] = <<>> THEN "EmptySignature"
        ELSE IF w[1] # PROVENANCE_PREAMBLE THEN "BadPreamble"
        ELSE IF w[2] # PROVENANCE_VERSION THEN "BadVersion"
        ELSE IF w[5] # PROVENANCE_POSTAMBLE THEN "BadPostamble"
        ELSE IF w[4] = NotBase64Word THEN "BadBase64"
        ELSE IF w[4] = ShortSignatureWord THEN "BadSignatureLength"
        ELSE ""

\* C17: verify reports the failure of the first check of the format that
\* fails, in the fixed order of the checks, and a document that passes them all
\* gets no failure of the format.
C17_CheckOrder ==
    pc = "one"
        => IF FirstFailingCheck # ""
           THEN verified[1].err = FirstFailingCheck
           ELSE verified[1].err \notin FormatErrors

\* a header that fails five checks at once gets the failure of the empty url
C17_Witness ==
    /\ pc = "one"
    /\ HasChar(vinput, LF)
    /\ header_words = <<Str(<<"!">>), Str(<<"!">>), <<>>, NotBase64Word, Str(<<"!">>)>>
    /\ verified[1].err = "EmptyUrl"

----------------------------------------------------------------------------
(* The place of the directory lookup *)

\* the events the step adds to the log
NewEvents == SubSeq(events', Len(events) + 1, Len(events'))

\* the url word of the first line of input
UrlWord(input) == split(split_once(input, LF)[1], SP)[3]

\* the lookups of the log, in their order
RECURSIVE LookupUrlsOf(_)
LookupUrlsOf(log) ==
    IF Len(log) = 0 THEN <<>>
    ELSE (IF log[1][1] = "lookup" THEN <<log[1][2]>> ELSE <<>>) \o LookupUrlsOf(Tail(log))

\* the urls of the layers, outermost first
RECURSIVE UrlsOutermostFirst(_)
UrlsOutermostFirst(ls) ==
    IF Len(ls) = 0 THEN <<>>
    ELSE <<ls[Len(ls)].url>> \o UrlsOutermostFirst(SubSeq(ls, 1, Len(ls) - 1))

\* C18: a call of verify makes no lookup when a check of the format fails;
\* else it makes exactly one lookup, of the url word of the header, first of
\* all, and the signature check follows only when the lookup gave a key (a
\* failed lookup is not tried again).  In verify_all the lookups are at most
\* one for each result, and for a chain of well made layers around a
\* one-line document they are those of the layers' urls, outermost first.
C18_LookupOrder ==
    /\ [][((pc = "build" /\ pc' = "one") \/ pc = "loop" \/ events' # events)
             => IF verified'[1].err \in FormatErrors
                THEN NewEvents = <<>>
                ELSE IF verified'[1].err = "KeyResolutionFailed"
                     THEN NewEvents = <<Lookup(UrlWord(vinput'))>>
                     ELSE NewEvents = <<Lookup(UrlWord(vinput')),
                                        SignatureCheck(UrlWord(vinput'))>>]_vars
    /\ [](Len(LookupUrlsOf(events)) <= Len(verifications) + (IF pc = "one" THEN 1 ELSE 0))
    /\ []((/\ pc = "done"
           /\ body0 = Str(<<"a">>)
           /\ tampered = 0
           /\ \A i \in 1..NumLayers : WellMade(layers[i]))
              => LookupUrlsOf(events) = UrlsOutermostFirst(layers))

C18_Witness ==
    /\ pc = "done"
    /\ NumLayers = 2
    /\ layers[1].url = UrlU
    /\ layers[2].url = UrlV
    /\ directory[UrlU] = NotFound
    /\ events = <<Lookup(UrlV), SignatureCheck(UrlV), Lookup(UrlU)>>

----------------------------------------------------------------------------
(* verify_all counts line feeds *)

\* the number of line feeds of s
LineFeeds(s) == Cardinality({i \in 1..Len(s) : s[i] = LF})

\* the text after the last line feed of s, s itself when it has none
AfterLastLF(s) ==
    LET at == {i \in 1..Len(s) : s[i] = LF}
        last == IF at = {} THEN 0 ELSE CHOOSE i \in at : \A j \in at : j <= i
    IN  SubSeq(s, last + 1, Len(s))

\* t is the end of s
IsSuffix(t, s) == Len(t) <= Len(s) /\ t = SubSeq(s, Len(s) - Len(t) + 1, Len(s))

\* C19: verify_all returns as many results as its input has line feeds and the
\* text after the last of them as remainder, a text without line feed; and the
\* document of every pass of the loop is an end of the input.
C19_ResultsCountLineFeeds ==
    /\ pc = "done"
          => /\ Len(verifications) = LineFeeds(signed_doc)
             /\ doc = AfterLastLF(signed_doc)
             /\ ~HasChar(doc, LF)
    /\ pc \in {"loop", "done"} => IsSuffix(doc, signed_doc)

C19_Witness ==
    /\ pc = "done"
    /\ NumLayers = 1
    /\ layers[1].kind = "format"
    /\ body0 = Str(<<"a", "\n", "b">>)
    /\ LineFeeds(signed_doc) = 2
    /\ Len(verifications) = 2
    /\ doc = Str(<<"b">>)

----------------------------------------------------------------------------
(* The key server under concurrent requests *)

\* the server is launched and no document is looked at
ServerInit ==
    /\ ServerStart
    /\ directory = TestDirectory
    /\ signed_doc = <<>>
    /\ body0 = <<>>
    /\ layers = <<>>
    /\ tampered = 0
    /\ pc = "build"
    /\ doc = <<>>
    /\ verifications = <<>>
    /\ verified = NoResult
    /\ vinput = <<>>
    /\ passes = 0
    /\ header_words = <<>>
    /\ events = <<>>
    /\ exit = "none"

ServerSpec == ServerInit /\ [][ServerNext]_vars

\* the generate_key requests for user u that returned a key pair
HandedOut(u) ==
    {r \in Requests :
        req[r].kind = "generate_key" /\ req[r].user = u /\ req[r].status = "ok"}

\* C20: under every interleaving of the requests a stored key is never
\* replaced, at most one generate_key request for a username returns a key
\* pair, and the key provenance serves for a username is the key of the launch
\* or the key of the one pair handed out.
C20_KeyNeverReplaced ==
    /\ [][\A u \in DOMAIN db : u \in DOMAIN db' /\ db'[u] = db[u]]_vars
    /\ [](\A u \in Usernames : Cardinality(HandedOut(u)) <= 1)
    /\ [](\A r \in Requests :
             (req[r].kind = "provenance" /\ req[r].status = "ok")
                 => \/ (req[r].user \in DOMAIN LaunchDb /\ req[r].key = LaunchDb[req[r].user])
                    \/ \A h \in HandedOut(req[r].user) : req[r].key = req[h].key)

\* two requests for alice both got a key pair, the second insert replaced the
\* first key, and provenance serves a key the first requester does not hold
C20_Witness ==
    /\ req[1] = [kind |-> "generate_key", user |-> "alice", pc |-> "done",
                 status |-> "ok", key |-> GeneratedKey(1)]
    /\ req[2] = [kind |-> "generate_key", user |-> "alice", pc |-> "done",
                 status |-> "ok", key |-> GeneratedKey(2)]
    /\ req[3] = [kind |-> "provenance", user |-> "alice", pc |-> "done",
                 status |-> "ok", key |-> GeneratedKey(2)]
    /\ db["alice"] = GeneratedKey(2)

----------------------------------------------------------------------------
(* The exit status of the verify command *)

\* the results that are successes
Successes == {i \in 1..Len(verifications) : verifications[i].ok}

\* C21: the verify command of the chain-verifying front end exits with success
\* exactly when the successes are as many as the results; on a text without
\* line feed verify_all finds no layer and the command exits with success.
C21_ExitStatus ==
    pc = "exit"
        => /\ exit = "ok" <=> Cardinality(Successes) = Len(verifications)
           /\ exit \in {"ok", "err"}
           /\ ~HasChar(signed_doc, LF) => (verifications = <<>> /\ exit = "ok")

C21_Witness ==
    /\ pc = "exit"
    /\ signed_doc = Str(<<"a">>)
    /\ NumLayers = 0
    /\ verifications = <<>>
    /\ exit = "ok"

====
